---- MODULE Spec2Model ----
(***************************************************************************)
(* A model of the tpb client library: the lenient field decoders of        *)
(* deser.rs, the response records of types.rs, and the category lookup,    *)
(* magnet link and request functions of lib.rs.                            *)
(*                                                                         *)
(* Text is a sequence of one-character strings; in the magnet link, where  *)
(* every byte of a text matters, it is a sequence of UTF-8 bytes.  A       *)
(* 64-bit quantity is its canonical decimal numeral (a sequence of digit   *)
(* characters without leading zeros), since the values do not fit the      *)
(* integers of TLC; a signed quantity is a sign and such a magnitude.      *)
(***************************************************************************)
EXTENDS Integers, Sequences, FiniteSets, TLC

VARIABLES
    CATEGORIES,   \* scraped::CATEGORIES, the static (code, name) table
    op,           \* the library function last called
    arg,          \* its argument
    res,          \* what it returned
    client,       \* CLIENT: per thread, the lazily built HTTP client handle
    built,        \* per thread, how many client handles it constructed
    call          \* per request future: its position and bookkeeping

vars == <<CATEGORIES, op, arg, res, client, built, call>>

-----------------------------------------------------------------------------
(* Results *)

Ok(v) == [ok |-> TRUE, val |-> v]
Err(e) == [ok |-> FALSE, err |-> e]
Some(v) == [some |-> TRUE, val |-> v]
None == [some |-> FALSE]

-----------------------------------------------------------------------------
(* Decimal numerals *)

DigitChars == <<"0", "1", "2", "3", "4", "5", "6", "7", "8", "9">>
IsDigit(c) == \E i \in 1..10 : DigitChars[i] = c
DigitVal(c) == (CHOOSE i \in 1..10 : DigitChars[i] = c) - 1

\* a <= b for canonical numerals
NatLeq(a, b) ==
    \/ Len(a) < Len(b)
    \/ /\ Len(a) = Len(b)
       /\ \/ a = b
          \/ \E i \in 1..Len(a) :
                /\ DigitVal(a[i]) < DigitVal(b[i])
                /\ \A j \in 1..(i - 1) : a[j] = b[j]

Zero == <<"0">>
\* acc * 10 + d
MulAdd(acc, d) == IF acc = Zero THEN <<d>> ELSE Append(acc, d)

Signed(neg, mag) == [neg |-> neg /\ mag # Zero, mag |-> mag]
\* a <= b for signed quantities
SLeq(a, b) ==
    IF a.neg /\ ~b.neg THEN TRUE
    ELSE IF ~a.neg /\ b.neg THEN FALSE
    ELSE IF a.neg THEN NatLeq(b.mag, a.mag)
    ELSE NatLeq(a.mag, b.mag)

RECURSIVE ToInt(_)
\* the integer of a numeral that is small enough for one
ToInt(ds) == IF ds = <<>> THEN 0
             ELSE 10 * ToInt(SubSeq(ds, 1, Len(ds) - 1)) + DigitVal(ds[Len(ds)])

U64Max == <<"1","8","4","4","6","7","4","4","0","7","3","7","0","9","5","5","1","6","1","5">>
I64Max == <<"9","2","2","3","3","7","2","0","3","6","8","5","4","7","7","5","8","0","7">>
I64MinMag == <<"9","2","2","3","3","7","2","0","3","6","8","5","4","7","7","5","8","0","8">>
U16Max == 65535
U16MaxText == <<"6","5","5","3","5">>

-----------------------------------------------------------------------------
(* JSON values (serde_json::Value as read from the response text) *)

JNull == [t |-> "null", neg |-> FALSE, frac |-> FALSE, s |-> <<>>, items |-> <<>>, keys |-> <<>>]
JBool(b) == [t |-> "bool", neg |-> b, frac |-> FALSE, s |-> <<>>, items |-> <<>>, keys |-> <<>>]
\* an integer literal: sign and canonical digits
JNum(neg, ds) == [t |-> "num", neg |-> neg, frac |-> FALSE, s |-> ds, items |-> <<>>, keys |-> <<>>]
\* a literal with a fraction or an exponent
JFrac(neg, ds) == [t |-> "num", neg |-> neg, frac |-> TRUE, s |-> ds, items |-> <<>>, keys |-> <<>>]
JStr(s) == [t |-> "str", neg |-> FALSE, frac |-> FALSE, s |-> s, items |-> <<>>, keys |-> <<>>]
JArr(items) == [t |-> "arr", neg |-> FALSE, frac |-> FALSE, s |-> <<>>, items |-> items, keys |-> <<>>]
\* an object: the names and the values of its members, in the order of the text
JObj(keys, items) == [t |-> "obj", neg |-> FALSE, frac |-> FALSE, s |-> <<>>, items |-> items, keys |-> keys]
\* a body that is not JSON at all
JInvalid == [t |-> "invalid", neg |-> FALSE, frac |-> FALSE, s |-> <<>>, items |-> <<>>, keys |-> <<>>]

\* Value::as_u64: only a number the parser stored as an unsigned integer
as_u64(v) ==
    IF v.t = "num" /\ ~v.frac /\ ~v.neg /\ NatLeq(v.s, U64Max)
    THEN Some(v.s) ELSE None

\* Value::as_i64: a stored integer that fits i64 (the literal -0 is stored
\* as a float, as is any literal beyond the 64-bit integers)
as_i64(v) ==
    IF v.t = "num" /\ ~v.frac
    THEN IF ~v.neg
         THEN IF NatLeq(v.s, I64Max) THEN Some(Signed(FALSE, v.s)) ELSE None
         ELSE IF v.s # Zero /\ NatLeq(v.s, I64MinMag)
              THEN Some(Signed(TRUE, v.s)) ELSE None
    ELSE None

\* Value::as_str
as_str(v) == IF v.t = "str" THEN Some(v.s) ELSE None

-----------------------------------------------------------------------------
(* str::parse for the integer types *)

RECURSIVE ParseDigits(_, _, _, _)
\* digits s[i..] accumulated onto acc with checked arithmetic up to limit
ParseDigits(s, i, acc, limit) ==
    IF i > Len(s) THEN Some(acc)
    ELSE IF ~IsDigit(s[i]) THEN None
    ELSE IF ~NatLeq(MulAdd(acc, s[i]), limit) THEN None
    ELSE ParseDigits(s, i + 1, MulAdd(acc, s[i]), limit)

\* s.parse::<u64>().ok()
parse_u64(s) ==
    IF s = <<>> THEN None
    ELSE IF s[1] \in {"+", "-"} /\ Len(s) = 1 THEN None
    ELSE IF s[1] = "+" THEN ParseDigits(s, 2, Zero, U64Max)
    ELSE ParseDigits(s, 1, Zero, U64Max)

\* s.parse::<i64>().ok()
parse_i64(s) ==
    IF s = <<>> THEN None
    ELSE IF s[1] \in {"+", "-"} /\ Len(s) = 1 THEN None
    ELSE IF s[1] = "+"
         THEN LET r == ParseDigits(s, 2, Zero, I64Max)
              IN IF r.some THEN Some(Signed(FALSE, r.val)) ELSE None
    ELSE IF s[1] = "-"
         THEN LET r == ParseDigits(s, 2, Zero, I64MinMag)
              IN IF r.some THEN Some(Signed(TRUE, r.val)) ELSE None
    ELSE LET r == ParseDigits(s, 1, Zero, I64Max)
         IN IF r.some THEN Some(Signed(FALSE, r.val)) ELSE None

-----------------------------------------------------------------------------
(* deser.rs *)

\* value.as_u64().or_else(|| value.as_str().and_then(|s| s.parse().ok()))
U64OrStr(v) ==
    IF as_u64(v).some THEN as_u64(v)
    ELSE IF as_str(v).some THEN parse_u64(as_str(v).val)
    ELSE None
\* a decoder that goes through i64 on the string path
u64_from_str_via_i64(v) ==
    IF as_u64(v).some THEN Ok(as_u64(v).val)
    ELSE IF as_str(v).some /\ parse_i64(as_str(v).val).some /\ ~parse_i64(as_str(v).val).val.neg
    THEN Ok(parse_i64(as_str(v).val).val.mag)
    ELSE Err("expected a u64 or a string")

u64_from_str(v) ==
    IF U64OrStr(v).some THEN Ok(U64OrStr(v).val)
    ELSE Err("expected a u64 or a string")

\* u16::try_from(u)
u16_try_from(u) == IF NatLeq(u, U16MaxText) THEN Some(ToInt(u)) ELSE None
RECURSIVE ModU16(_)
\* the numeral modulo 2^16
ModU16(ds) == IF ds = <<>> THEN 0
              ELSE (10 * ModU16(SubSeq(ds, 1, Len(ds) - 1)) + DigitVal(ds[Len(ds)])) % (U16Max + 1)

\* a decoder that narrows with `as u16`
u16_from_str_truncating(v) ==
    IF ~U64OrStr(v).some THEN Err("expected a u64 or a string")
    ELSE Ok(ModU16(U64OrStr(v).val))

u16_from_str(v) ==
    IF ~U64OrStr(v).some THEN Err("expected a u64 or a string")
    ELSE IF ~u16_try_from(U64OrStr(v).val).some THEN Err("expected a u16")
    ELSE Ok(u16_try_from(U64OrStr(v).val).val)

\* the extreme instants of NaiveDateTime, in seconds from the epoch
MaxTimestamp == Signed(FALSE, <<"8","2","1","0","2","6","6","8","7","6","7","9","9">>)
MinTimestamp == Signed(TRUE, <<"8","3","3","4","6","0","1","2","2","8","8","0","0">>)

\* NaiveDateTime::from_timestamp_opt(secs, 0), then
\* DateTime::from_naive_utc_and_offset(naive, Utc)
from_timestamp_opt(secs) ==
    IF SLeq(MinTimestamp, secs) /\ SLeq(secs, MaxTimestamp)
    THEN Some([secs |-> secs, nanos |-> 0, zone |-> "Utc"])
    ELSE None

I64OrStr(v) ==
    IF as_i64(v).some THEN as_i64(v)
    ELSE IF as_str(v).some THEN parse_i64(as_str(v).val)
    ELSE None
\* a decoder that reads the number with as_u64
parse_timestamp_unsigned(v) ==
    IF as_u64(v).some
    THEN IF from_timestamp_opt(Signed(FALSE, as_u64(v).val)).some
         THEN Ok(from_timestamp_opt(Signed(FALSE, as_u64(v).val)).val)
         ELSE Err("expected a timestamp in seconds")
    ELSE IF as_str(v).some /\ parse_i64(as_str(v).val).some
            /\ from_timestamp_opt(parse_i64(as_str(v).val).val).some
    THEN Ok(from_timestamp_opt(parse_i64(as_str(v).val).val).val)
    ELSE Err("expected a timestamp in seconds")

parse_timestamp(v) ==
    IF I64OrStr(v).some /\ from_timestamp_opt(I64OrStr(v).val).some
    THEN Ok(from_timestamp_opt(I64OrStr(v).val).val)
    ELSE Err("expected a timestamp in seconds")

\* Option::<String>::deserialize(..).map(|s| s.filter(|s| !s.is_empty()))
empty_as_none(v) ==
    IF v.t = "null" THEN Ok(None)
    ELSE IF v.t = "str" THEN Ok(IF v.s = <<>> THEN None ELSE Some(v.s))
    ELSE Err("invalid type")

\* T::deserialize(value) for the two element types TorrentFile uses
DeserializeAs(T, v) ==
    IF T = "String"
    THEN IF v.t = "str" THEN Ok(v.s) ELSE Err("invalid type")
    ELSE IF as_u64(v).some THEN Ok(as_u64(v).val) ELSE Err("invalid type")
\* an unwrap that only rejects the empty array
unit_array_first(T, v) ==
    IF v.t # "arr" THEN Err("expected an array")
    ELSE IF Len(v.items) < 1 THEN Err("expected an array of length 1")
    ELSE IF DeserializeAs(T, v.items[1]).ok THEN DeserializeAs(T, v.items[1])
    ELSE Err("failed to deserialize")

unit_array(T, v) ==
    IF v.t # "arr" THEN Err("expected an array")
    ELSE IF Len(v.items) # 1 THEN Err("expected an array of length 1")
    ELSE IF DeserializeAs(T, v.items[1]).ok THEN DeserializeAs(T, v.items[1])
    ELSE Err("failed to deserialize")

-----------------------------------------------------------------------------
(* lib.rs: Category *)

\* CATEGORIES.iter().find(|(category_id, _)| category_id == &id).map(|(_, name)| *name)
lookup_id(id) ==
    IF \E i \in 1..Len(CATEGORIES) : CATEGORIES[i][1] = id
    THEN Some(CATEGORIES[CHOOSE i \in 1..Len(CATEGORIES) :
                            /\ CATEGORIES[i][1] = id
                            /\ \A j \in 1..(i - 1) : CATEGORIES[j][1] # id][2])
    ELSE None
\* a constructor that also admits the codes name() can resolve
Category_new_resolvable(id) ==
    IF lookup_id(id).some \/ lookup_id(id \div 100).some
    THEN Some([code |-> id]) ELSE None

\* Category::new
Category_new(id) ==
    IF \E i \in 1..Len(CATEGORIES) : CATEGORIES[i][1] = id
    THEN Some([code |-> id]) ELSE None

\* Category::all, the whole sequence the iterator yields
Category_all == [i \in 1..Len(CATEGORIES) |-> [code |-> CATEGORIES[i][1]]]

\* Category::name
Category_name(self) ==
    IF lookup_id(self.code).some THEN lookup_id(self.code).val
    ELSE IF lookup_id(self.code \div 100).some THEN lookup_id(self.code \div 100).val
    ELSE "Unknown"

\* Category::code
Category_code(self) == self.code

-----------------------------------------------------------------------------
(* lib.rs: PartialTorrent::magnet, with the URL parser and the form encoder *)
(* it calls.  The texts of this section are sequences of UTF-8 bytes       *)
(* (0..255), as the parser and the encoder read them, so that every        *)
(* character a String can hold has a value: 9 tab, 10 line feed, 13        *)
(* carriage return, 32 space, 34 ", 35 #, 37 %, 38 &, 43 +, 60 <, 61 =,    *)
(* 62 >, 96 grave accent, 127 DEL, 128.. the bytes of a non-ASCII          *)
(* character.                                                              *)

\* scraped::TRACKERS: "udp://a.b:1/x" and "udp://c.d:2/x"
TRACKERS == << <<117, 100, 112, 58, 47, 47, 97, 46, 98, 58, 49, 47, 120>>,
               <<117, 100, 112, 58, 47, 47, 99, 46, 100, 58, 50, 47, 120>> >>

\* "magnet:?xt=urn:btih:"
MagnetPrefix ==
    <<109, 97, 103, 110, 101, 116, 58, 63, 120, 116, 61, 117, 114, 110, 58,
      98, 116, 105, 104, 58>>

RECURSIVE Flatten(_)
Flatten(ss) == IF ss = <<>> THEN <<>> ELSE Head(ss) \o Flatten(Tail(ss))

\* the upper-case hexadecimal digit of d in 0..15
HexDigit(d) == IF d < 10 THEN 48 + d ELSE 55 + d

\* percent_encode_byte: %XX of byte b
PctCode(b) == <<37, HexDigit(b \div 16), HexDigit(b % 16)>>

\* c0_control_or_space: every character up to the space
IsC0OrSpace(b) == b <= 32
\* ascii_tab_or_new_line: tab, line feed and carriage return
IsTabOrNewline(b) == b \in {9, 10, 13}

RECURSIVE TrimEnd(_)
\* Url::parse drops trailing C0 controls and spaces of its input (the leading
\* ones cannot occur: the input starts with the prefix)
TrimEnd(s) ==
    IF s # <<>> /\ IsC0OrSpace(s[Len(s)]) THEN TrimEnd(SubSeq(s, 1, Len(s) - 1)) ELSE s

\* and ignores every tab and newline inside it
StripTabs(s) == SelectSeq(s, LAMBDA b : ~IsTabOrNewline(b))

\* index of the first # of s, or Len(s) + 1
FirstHash(s) ==
    IF \E i \in 1..Len(s) : s[i] = 35
    THEN CHOOSE i \in 1..Len(s) : s[i] = 35 /\ \A j \in 1..(i - 1) : s[j] # 35
    ELSE Len(s) + 1

\* the percent-encode set CONTROLS: the C0 controls, DEL, and every byte of a
\* non-ASCII character
IsControl(b) == b < 32 \/ b >= 127
\* the set QUERY of the query state on a non-special scheme
InQuerySet(b) == IsControl(b) \/ b \in {32, 34, 35, 60, 62}
\* the set FRAGMENT of the fragment state
InFragmentSet(b) == IsControl(b) \/ b \in {32, 34, 60, 62, 96}

\* the query state of the parser
QueryEncode(s) ==
    Flatten([i \in 1..Len(s) |-> IF InQuerySet(s[i]) THEN PctCode(s[i]) ELSE <<s[i]>>])
\* the fragment state
FragmentEncode(s) ==
    Flatten([i \in 1..Len(s) |-> IF InFragmentSet(s[i]) THEN PctCode(s[i]) ELSE <<s[i]>>])

\* format!("magnet:?xt=urn:btih:{}", info_hash).parse::<reqwest::Url>():
\* the serialization up to the fragment, and the fragment when there is one
ParseUrl(info_hash) ==
    LET rest == StripTabs(TrimEnd(info_hash))
        h == FirstHash(rest)
    IN  [head |-> MagnetPrefix \o QueryEncode(SubSeq(rest, 1, h - 1)),
         fragment |-> IF h > Len(rest) THEN None
                      ELSE Some(FragmentEncode(SubSeq(rest, h + 1, Len(rest))))]

\* the bytes byte_serialize keeps: * - . _, the digits and the letters
IsUnreserved(b) ==
    \/ b \in {42, 45, 46, 95}
    \/ b \in 48..57
    \/ b \in 65..90
    \/ b \in 97..122

\* form_urlencoded::byte_serialize: a space becomes +, any other byte %XX
byte_serialize(s) ==
    Flatten([i \in 1..Len(s) |->
                IF IsUnreserved(s[i]) THEN <<s[i]>>
                ELSE IF s[i] = 32 THEN <<43>>
                ELSE PctCode(s[i])])

\* Serializer::append_pair on a query that is not empty
append_pair(query, name, value) ==
    query \o <<38>> \o byte_serialize(name) \o <<61>> \o byte_serialize(value)

RECURSIVE extend_pairs(_, _, _)
\* Serializer::extend_pairs over (name, value) for each value of values
extend_pairs(query, name, values) ==
    IF values = <<>> THEN query
    ELSE extend_pairs(append_pair(query, name, Head(values)), name, Tail(values))

\* query_pairs_mut() sets the fragment aside, finish() puts it back; the
\* parameter names are "dn" and "tr"
magnet(self) ==
    LET url == ParseUrl(self.info_hash)
        query == extend_pairs(append_pair(url.head, <<100, 110>>, self.name),
                              <<116, 114>>, TRACKERS)
    IN  IF url.fragment.some THEN query \o <<35>> \o url.fragment.val ELSE query

-----------------------------------------------------------------------------
(* types.rs: the derived Deserialize of the response records.  A response  *)
(* is decoded from its text, so an object is read member by member in the *)
(* order of the text.                                                      *)

\* String::deserialize
String_deserialize(v) == IF v.t = "str" THEN Ok(v.s) ELSE Err("invalid type")

\* Option::<usize>::deserialize
OptionUsize(v) ==
    IF v.t = "null" THEN Ok(None)
    ELSE IF as_u64(v).some THEN Ok(Some(as_u64(v).val))
    ELSE Err("invalid type")

\* UserStatus, #[serde(rename_all = "lowercase")]: the tag as a string value,
\* the tag as a member name, and the variant
UserStatusTags ==
    << << <<"m","e","m","b","e","r">>, "member", "Member" >>,
       << <<"t","r","u","s","t","e","d">>, "trusted", "Trusted" >>,
       << <<"h","e","l","p","e","r">>, "helper", "Helper" >>,
       << <<"v","i","p">>, "vip", "Vip" >>,
       << <<"m","o","d","e","r","a","t","o","r">>, "moderator", "Moderator" >>,
       << <<"s","u","p","e","r","m","o","d">>, "supermod", "SuperMod" >>,
       << <<"a","d","m","i","n">>, "admin", "Admin" >> >>

\* the variant a tag names, by column of UserStatusTags
Variant(col, tag) ==
    IF \E i \in 1..Len(UserStatusTags) : UserStatusTags[i][col] = tag
    THEN Ok(UserStatusTags[CHOOSE i \in 1..Len(UserStatusTags) : UserStatusTags[i][col] = tag][3])
    ELSE Err("unknown variant")

\* UserStatus::deserialize from the text: a unit variant is its tag as a
\* string, or an object whose only member is named by the tag and is null
UserStatus_deserialize(v) ==
    IF v.t = "str" THEN Variant(1, v.s)
    ELSE IF v.t # "obj" \/ v.keys = <<>> THEN Err("invalid type")
    ELSE IF ~Variant(2, v.keys[1]).ok THEN Err("unknown variant")
    ELSE IF v.items[1].t # "null" THEN Err("invalid type")
    ELSE IF Len(v.keys) > 1 THEN Err("expected one member")
    ELSE Variant(2, v.keys[1])

\* UserStatus::deserialize from a value #[serde(flatten)] has buffered: the
\* object form must have one member, whose value is null or an empty object
UserStatus_buffered(v) ==
    IF v.t = "str" THEN Variant(1, v.s)
    ELSE IF v.t # "obj" THEN Err("invalid type")
    ELSE IF Len(v.keys) # 1 THEN Err("expected one member")
    ELSE IF ~Variant(2, v.keys[1]).ok THEN Err("unknown variant")
    ELSE IF ~(v.items[1].t = "null" \/ (v.items[1].t = "obj" /\ v.items[1].keys = <<>>))
    THEN Err("invalid type")
    ELSE Variant(2, v.keys[1])

\* Category, #[serde(transparent)] over u16_from_str
Category_deserialize(v) ==
    IF u16_from_str(v).ok THEN Ok([code |-> u16_from_str(v).val]) ELSE u16_from_str(v)

UnitString(v) == unit_array("String", v)
UnitU64(v) == unit_array("u64", v)

PartialTorrentFields ==
    <<"id", "name", "info_hash", "leechers", "seeders", "num_files", "size",
      "username", "added", "status", "category", "imdb">>

\* the fields each derived visitor knows, in declaration order; Torrent keeps
\* its own three and hands every other member to the flattened PartialTorrent
FieldsOf(S) ==
    CASE S \in {"PartialTorrent", "PartialTorrent (flattened)"} -> PartialTorrentFields
      [] S = "TorrentFile" -> <<"name", "size">>
      [] S = "Torrent" -> <<"descr", "language", "textlanguage">>

FieldSet(S) == {FieldsOf(S)[n] : n \in 1..Len(FieldsOf(S))}

\* fields of an Option type without deserialize_with: absent reads as None
OptionalFields(S) == IF S = "Torrent" THEN {"language", "textlanguage"} ELSE {}

\* the type or the deserialize_with function of field k
TypeOf(S, k) ==
    CASE k \in {"id", "leechers", "seeders", "num_files"} -> "u64_from_str"
      [] k = "size" -> IF S = "TorrentFile" THEN "unit_array u64" ELSE "u64_from_str"
      [] k = "name" -> IF S = "TorrentFile" THEN "unit_array String" ELSE "String"
      [] k \in {"info_hash", "username", "descr"} -> "String"
      [] k = "added" -> "parse_timestamp"
      [] k = "status" -> IF S = "PartialTorrent (flattened)" THEN "UserStatus (buffered)"
                         ELSE "UserStatus"
      [] k = "category" -> "Category"
      [] k = "imdb" -> "empty_as_none"
      [] k \in {"language", "textlanguage"} -> "Option<usize>"

\* the decoding of value v as a field of that type
deserialize_field(ty, v) ==
    CASE ty = "u64_from_str" -> u64_from_str(v)
      [] ty = "String" -> String_deserialize(v)
      [] ty = "parse_timestamp" -> parse_timestamp(v)
      [] ty = "UserStatus" -> UserStatus_deserialize(v)
      [] ty = "UserStatus (buffered)" -> UserStatus_buffered(v)
      [] ty = "Category" -> Category_deserialize(v)
      [] ty = "empty_as_none" -> empty_as_none(v)
      [] ty = "unit_array String" -> UnitString(v)
      [] ty = "unit_array u64" -> UnitU64(v)
      [] ty = "Option<usize>" -> OptionUsize(v)

HasKey(o, k) == \E i \in 1..Len(o.keys) : o.keys[i] = k

\* index of the member that holds field k
MemberOf(o, k) == CHOOSE i \in 1..Len(o.keys) : o.keys[i] = k

\* position of field k among the fields of S
FieldIndex(S, k) == CHOOSE n \in 1..Len(FieldsOf(S)) : FieldsOf(S)[n] = k

\* what each member of object o decodes to as the field of S it names;
\* a member that names no field is skipped
MemberDecodings(S, o) ==
    [i \in 1..Len(o.keys) |->
        IF o.keys[i] \in FieldSet(S)
        THEN deserialize_field(TypeOf(S, o.keys[i]), o.items[i])
        ELSE Ok("skipped")]

\* member i ends the decode: it names a field already read, or its value
\* does not decode
MemberFails(S, o, ds, i) ==
    /\ o.keys[i] \in FieldSet(S)
    /\ \/ \E j \in 1..(i - 1) : o.keys[j] = o.keys[i]
       \/ ~ds[i].ok

\* the members in the order of the text, the first that fails returns its
\* error; then the fields in declaration order, the first that is absent and
\* not optional is the missing field
MapResult(S, o, ds) ==
    IF \E i \in 1..Len(o.keys) : MemberFails(S, o, ds, i)
    THEN LET i == CHOOSE i \in 1..Len(o.keys) :
                      /\ MemberFails(S, o, ds, i)
                      /\ \A j \in 1..(i - 1) : ~MemberFails(S, o, ds, j)
         IN  IF \E j \in 1..(i - 1) : o.keys[j] = o.keys[i]
             THEN Err("duplicate field")
             ELSE ds[i]
    ELSE IF \E k \in FieldSet(S) \ OptionalFields(S) : ~HasKey(o, k)
    THEN Err("missing field")
    ELSE Ok([k \in FieldSet(S) |-> IF HasKey(o, k) THEN ds[MemberOf(o, k)].val ELSE None])

\* a record of the fields that did decode
LenientResult(S, o, ds) ==
    Ok([k \in {f \in FieldSet(S) : HasKey(o, f) /\ ds[MemberOf(o, f)].ok}
            |-> ds[MemberOf(o, k)].val])

\* a visitor that keeps the fields that did decode
visit_map_lenient(S, o) == LenientResult(S, o, MemberDecodings(S, o))

\* the derived visit_map
visit_map(S, o) == MapResult(S, o, MemberDecodings(S, o))

\* what each element of array v decodes to as the field of S at its place
ElementDecodings(S, v) ==
    [n \in 1..(IF Len(v.items) < Len(FieldsOf(S)) THEN Len(v.items) ELSE Len(FieldsOf(S))) |->
        deserialize_field(TypeOf(S, FieldsOf(S)[n]), v.items[n])]

\* the elements of an array are the fields in declaration order, no fewer
\* and no more; the first that does not decode returns its error
SeqResult(S, v, ds) ==
    IF \E n \in 1..Len(ds) : ~ds[n].ok
    THEN ds[CHOOSE n \in 1..Len(ds) : ~ds[n].ok /\ \A m \in 1..(n - 1) : ds[m].ok]
    ELSE IF Len(v.items) < Len(FieldsOf(S)) THEN Err("invalid length")
    ELSE IF Len(v.items) > Len(FieldsOf(S)) THEN Err("trailing characters")
    ELSE Ok([k \in FieldSet(S) |-> ds[FieldIndex(S, k)].val])

\* the derived visit_seq
visit_seq(S, v) == SeqResult(S, v, ElementDecodings(S, v))

\* PartialTorrent::deserialize
PartialTorrent_deserialize(v) ==
    IF v.t = "obj" THEN visit_map("PartialTorrent", v)
    ELSE IF v.t = "arr" THEN visit_seq("PartialTorrent", v)
    ELSE Err("invalid type")

\* TorrentFile::deserialize
TorrentFile_deserialize(v) ==
    IF v.t = "obj" THEN visit_map("TorrentFile", v)
    ELSE IF v.t = "arr" THEN visit_seq("TorrentFile", v)
    ELSE Err("invalid type")

\* the Torrent of its own fields and of the flattened PartialTorrent
TorrentResult(own, partial) ==
    IF ~own.ok THEN own
    ELSE IF ~partial.ok THEN partial
    ELSE Ok([k \in {"descr", "language", "textlanguage", "partial"} |->
                IF k = "partial" THEN partial.val ELSE own.val[k]])

\* Torrent::deserialize, #[serde(flatten)]: an object only; its own fields are
\* read as they come and the other members are buffered, and once the object
\* has ended the PartialTorrent is decoded from the buffered members
Torrent_deserialize(v) ==
    IF v.t # "obj" THEN Err("invalid type")
    ELSE TorrentResult(visit_map("Torrent", v), visit_map("PartialTorrent (flattened)", v))

\* T::deserialize for the element type of a list response
deserialize_element(T, v) ==
    IF T = "PartialTorrent" THEN PartialTorrent_deserialize(v) ELSE TorrentFile_deserialize(v)

\* the list of the decoded elements, or the error of the first that fails
VecResult(ds) ==
    IF \A i \in 1..Len(ds) : ds[i].ok
    THEN Ok([i \in 1..Len(ds) |-> ds[i].val])
    ELSE ds[CHOOSE i \in 1..Len(ds) : ~ds[i].ok /\ \A j \in 1..(i - 1) : ds[j].ok]

\* Vec::<T>::deserialize: the first element that fails ends the decode
Vec_deserialize(T, v) ==
    IF v.t # "arr" THEN Err("invalid type")
    ELSE VecResult([i \in 1..Len(v.items) |-> deserialize_element(T, v.items[i])])

-----------------------------------------------------------------------------
(* Inputs *)

MaxDigits == 2
MaxItems == 2
MaxHashLen == 2

SeqsUpTo(A, n) == UNION {[1..k -> A] : k \in 0..n}

\* numerals at the edges of u16, i64, u64 and of the calendar
BoundaryNumerals ==
    {<<"2","0","7">>,
     <<"6","5","5","3","5">>,
     <<"6","5","5","3","6">>,
     <<"1","7","0","0","0","0","0","0","0","0">>,
     <<"4","2","9","4","9","6","7","2","9","6">>,
     <<"8","2","1","0","2","6","6","8","7","6","7","9","9">>,
     <<"8","2","1","0","2","6","6","8","7","6","8","0","0">>,
     <<"8","3","3","4","6","0","1","2","2","8","8","0","0">>,
     <<"8","3","3","4","6","0","1","2","2","8","8","0","1">>,
     <<"8","3","3","4","6","0","1","3","1","5","2","0","0">>,
     <<"8","3","3","4","6","0","1","3","1","5","2","0","1">>,
     <<"9","2","2","3","3","7","2","0","3","6","8","5","4","7","7","5","8","0","7">>,
     <<"9","2","2","3","3","7","2","0","3","6","8","5","4","7","7","5","8","0","8">>,
     <<"9","2","2","3","3","7","2","0","3","6","8","5","4","7","7","5","8","0","9">>,
     <<"1","8","4","4","6","7","4","4","0","7","3","7","0","9","5","5","1","6","1","5">>,
     <<"1","8","4","4","6","7","4","4","0","7","3","7","0","9","5","5","1","6","1","6">>,
     <<"9","9","9","9","9","9","9","9","9","9","9","9","9","9","9","9","9","9","9","9">>}

IsCanonical(s) ==
    /\ s # <<>>
    /\ \A i \in 1..Len(s) : IsDigit(s[i])
    /\ (Len(s) > 1 => s[1] # "0")

Numerals ==
    BoundaryNumerals \cup {s \in SeqsUpTo({"0", "1", "9"}, MaxDigits) : IsCanonical(s)}

OddTexts ==
    {<<"a","b","c">>,
     <<" ","5">>,
     <<"5"," ">>,
     <<"0","0","7">>,
     <<"1",".","5">>,
     <<"1","2","a">>,
     <<"-","-","5">>,
     <<"+","-","5">>,
     <<"0","x","1","0">>,
     <<"1","e","3">>,
     <<"0","0","0","0","0","0","0","0","0","0","0","0","0","0","0","0","0","0","0","0","1","8","4","4","6","7","4","4","0","7","3","7","0","9","5","5","1","6","1","5">>,
     <<"+","0","0","1","8","4","4","6","7","4","4","0","7","3","7","0","9","5","5","1","6","1","6">>}

Texts ==
    SeqsUpTo({"0", "1", "9", "+", "-", "a"}, MaxDigits)
        \cup Numerals
        \cup {<<"+">> \o n : n \in BoundaryNumerals}
        \cup {<<"-">> \o n : n \in BoundaryNumerals}
        \cup OddTexts

JsonNumbers ==
    {JNum(neg, n) : neg \in BOOLEAN, n \in Numerals}
        \cup {JFrac(neg, n) : neg \in BOOLEAN,
                              n \in {<<"0">>, <<"1">>, <<"1","7","0","0","0","0","0","0","0","0">>}}

JsonStrings == {JStr(s) : s \in Texts}

ArrayElements ==
    {JStr(<<"x">>), JStr(<<>>), JStr(<<"5">>), JNum(FALSE, <<"5">>), JNum(TRUE, <<"5">>),
     JNum(FALSE, U64Max), JNum(FALSE, MulAdd(SubSeq(U64Max, 1, 19), "6")),
     JFrac(FALSE, <<"5">>), JNull, JArr(<<JStr(<<"x">>)>>)}

JsonArrays == {JArr(items) : items \in SeqsUpTo(ArrayElements, MaxItems)}

JsonInputs ==
    JsonNumbers \cup JsonStrings \cup JsonArrays
        \cup {JNull, JBool(TRUE), JBool(FALSE), JObj(<<"x">>, <<JStr(<<"x">>)>>), JObj(<<>>, <<>>)}

\* candidate contents of the static table
CategoryTables ==
    { << <<100, "Audio">>, <<101, "Audio: Music">>, <<200, "Video">>,
         <<201, "Video: Movies">>, <<600, "Other">> >>,
      << <<1, "Audio">>, <<101, "Audio: Music">>, <<2, "Video">>,
         <<201, "Video: Movies">>, <<207, "Video: HD Movies">> >>,
      << <<2, "Video">>, <<200, "Video: All">>, <<201, "Video: Movies">>,
         <<655, "Top">> >>,
      << <<201, "Video: Movies">> >> }

TestCodes == {0, 1, 2, 6, 99, 100, 101, 199, 200, 201, 207, 299, 600, 655, 699,
              6553, 20000, 20100, 65500, U16Max}

\* info hashes as UTF-8 bytes: every text up to MaxHashLen over
\* A 1 : space # & tab line-feed < DEL and the control 1, and
\* "ABC123", "AB#CD", A CR B, A"#">, A FF B FF, A\, A VT B VT, A and the
\* control 31, NUL A NUL, e-acute, A#`, `, #e-acute DEL, A#B#C, ', > and "
InfoHashes ==
    SeqsUpTo({65, 49, 58, 32, 35, 38, 9, 10, 60, 127, 1}, MaxHashLen)
        \cup {<<65, 66, 67, 49, 50, 51>>, <<65, 66, 35, 67, 68>>,
              <<65, 13, 66>>, <<65, 34, 35, 34, 62>>, <<65, 12, 66, 12>>,
              <<65, 92>>, <<65, 11, 66, 11>>, <<65, 31>>, <<0, 65, 0>>,
              <<195, 169>>, <<65, 35, 96>>, <<96>>, <<35, 195, 169, 127>>,
              <<65, 35, 66, 35, 67>>, <<39>>, <<62>>, <<34>>}

\* names as UTF-8 bytes: "Foo", "", "a b", "a&b=c", "#x", a\, a DEL,
\* e-acute, the control 1 and `, "*-._~", NUL
Names ==
    {<<70, 111, 111>>, <<>>, <<97, 32, 98>>, <<97, 38, 98, 61, 99>>, <<35, 120>>,
     <<97, 92>>, <<97, 127>>, <<195, 169>>, <<1, 96>>, <<42, 45, 46, 95, 126>>, <<0>>}

\* decoded-record inputs: the documented search element and its variations
BaseTorrent ==
    [id        |-> JStr(<<"1">>),
     name      |-> JStr(<<"F","o","o">>),
     info_hash |-> JStr(<<"A","B","C">>),
     leechers  |-> JStr(<<"0">>),
     seeders   |-> JStr(<<"5">>),
     num_files |-> JStr(<<"1">>),
     size      |-> JStr(<<"1","0","0">>),
     username  |-> JStr(<<"u">>),
     added     |-> JStr(<<"1","7","0","0","0","0","0","0","0","0">>),
     status    |-> JStr(<<"t","r","u","s","t","e","d">>),
     category  |-> JStr(<<"2","0","7">>),
     imdb      |-> JStr(<<>>)]

With(m, k, v) == [x \in DOMAIN m \cup {k} |-> IF x = k THEN v ELSE m[x]]
Without(m, k) == [x \in DOMAIN m \ {k} |-> m[x]]

Reverse(s) == [i \in 1..Len(s) |-> s[Len(s) + 1 - i]]

\* the object that holds the members m in the order given
ObjectOf(order, m) ==
    LET ks == SelectSeq(order, LAMBDA k : k \in DOMAIN m)
    IN  JObj(ks, [i \in 1..Len(ks) |-> m[ks[i]]])

\* the array that holds the values of m in the order given
ArrayOf(order, m) == ObjectOf(order, m).items

\* the member names of a response object, as documented and with extras
MemberOrder == PartialTorrentFields \o <<"descr", "language", "textlanguage", "extra">>
MemberOrders == {MemberOrder, Reverse(MemberOrder)}

\* an object with one more member at its end
WithLast(o, k, v) == JObj(Append(o.keys, k), Append(o.items, v))

StatusObjects ==
    {JObj(<<"trusted">>, <<JNull>>),
     JObj(<<"trusted">>, <<JObj(<<>>, <<>>)>>),
     JObj(<<"trusted">>, <<JArr(<<>>)>>),
     JObj(<<"Trusted">>, <<JNull>>),
     JObj(<<"trusted", "admin">>, <<JNull, JNull>>),
     JObj(<<>>, <<>>)}

FieldAlternatives(k) ==
    CASE k \in {"id", "leechers", "seeders", "num_files", "size"} ->
            {JNum(FALSE, <<"7">>), JStr(<<"a">>), JNum(TRUE, <<"1">>), JNull}
      [] k \in {"name", "info_hash", "username"} ->
            {JStr(<<>>), JNum(FALSE, <<"7">>), JNull}
      [] k = "added" ->
            {JNum(FALSE, <<"1","7","0","0","0","0","0","0","0","0">>), JStr(<<"a">>),
             JStr(I64MinMag), JFrac(FALSE, <<"1">>),
             JNum(TRUE, MinTimestamp.mag), JNum(TRUE, MulAdd(SubSeq(MinTimestamp.mag, 1, 12), "1"))}
      [] k = "status" ->
            {JStr(<<"a","d","m","i","n">>), JStr(<<"T","r","u","s","t","e","d">>), JNull}
                \cup StatusObjects
      [] k = "category" ->
            {JNum(FALSE, <<"2","0","7">>), JStr(<<"6","5","5","3","6">>),
             JStr(<<"6","5","5","3","5">>), JNum(TRUE, <<"1">>)}
      [] k = "imdb" ->
            {JNull, JStr(<<"t","t","1">>), JNum(FALSE, <<"7">>)}

AlternativeValues == UNION {FieldAlternatives(k) : k \in DOMAIN BaseTorrent}

TorrentMembers ==
    {BaseTorrent}
        \cup {With(BaseTorrent, k, v) : k \in DOMAIN BaseTorrent, v \in AlternativeValues}
        \cup {Without(BaseTorrent, k) : k \in DOMAIN BaseTorrent}
        \cup {Without(With(BaseTorrent, "seeders", JStr(<<"a">>)), k) : k \in {"id", "imdb"}}
        \cup {With(BaseTorrent, "extra", v) : v \in {JNull, JStr(<<"a">>)}}

\* objects whose text repeats a member
RepeatedMembers ==
    {WithLast(ObjectOf(MemberOrder, m), k, v) :
        m \in {BaseTorrent, With(BaseTorrent, "descr", JStr(<<"d">>)),
               With(BaseTorrent, "extra", JNull)},
        k \in {"id", "imdb", "descr", "extra"},
        v \in {JStr(<<"2">>), JNull}}

\* a record written as the array of its fields
PartialTorrentArrays ==
    {JArr(ArrayOf(PartialTorrentFields, m)) :
        m \in {BaseTorrent, Without(BaseTorrent, "imdb"), Without(BaseTorrent, "id"),
               With(BaseTorrent, "seeders", JStr(<<"a">>)),
               With(BaseTorrent, "status", JObj(<<"trusted">>, <<JNull>>))}}
        \cup {JArr(Append(ArrayOf(PartialTorrentFields, BaseTorrent), JNull)),
              JArr(<<>>)}

PartialTorrentInputs ==
    {ObjectOf(order, m) : order \in MemberOrders, m \in TorrentMembers}
        \cup RepeatedMembers
        \cup PartialTorrentArrays
        \cup {JNull, JStr(<<"x">>)}

\* what a listing may hold as one element
ListingElements ==
    {ObjectOf(MemberOrder, BaseTorrent),
     ObjectOf(Reverse(MemberOrder), With(BaseTorrent, "id", JNum(FALSE, <<"7">>))),
     ObjectOf(MemberOrder, With(BaseTorrent, "seeders", JStr(<<"a">>))),
     ObjectOf(MemberOrder, With(BaseTorrent, "status", JStr(<<"T","r","u","s","t","e","d">>))),
     ObjectOf(MemberOrder, Without(BaseTorrent, "imdb")),
     JArr(ArrayOf(PartialTorrentFields, BaseTorrent)),
     JNull}

FileNames == {JArr(<<JStr(<<"x">>)>>), JArr(<<>>), JArr(<<JStr(<<"x">>), JStr(<<"y">>)>>),
              JStr(<<"x">>), JArr(<<JNum(FALSE, <<"5">>)>>)}
FileSizes == {JArr(<<JNum(FALSE, <<"5">>)>>), JArr(<<JStr(<<"5">>)>>), JArr(<<>>),
              JNum(FALSE, <<"5">>), JArr(<<JNum(TRUE, <<"5">>)>>)}

TorrentFileInputs ==
    {JObj(<<"name", "size">>, <<n, s>>) : n \in FileNames, s \in FileSizes}
        \cup {JObj(<<"size", "name">>, <<s, n>>) : n \in FileNames, s \in FileSizes}
        \cup {JObj(<<"name">>, <<n>>) : n \in FileNames}
        \cup {JObj(<<"size">>, <<s>>) : s \in FileSizes}
        \cup {JObj(<<"name", "size", "name">>, <<n, s, n>>) : n \in FileNames, s \in FileSizes}
        \cup {JObj(<<"extra", "name", "size">>, <<JNull, n, JArr(<<JNum(FALSE, <<"5">>)>>)>>) :
                 n \in FileNames}
        \cup {JArr(<<n, s>>) : n \in FileNames, s \in FileSizes}
        \cup {JArr(<<n>>) : n \in FileNames}
        \cup {JArr(<<JArr(<<JStr(<<"x">>)>>), JArr(<<JNum(FALSE, <<"5">>)>>), JNull>>)}
        \cup {JNull}

FileElements ==
    {JObj(<<"name", "size">>, <<JArr(<<JStr(<<"x">>)>>), JArr(<<JNum(FALSE, <<"5">>)>>)>>),
     JObj(<<"size", "name">>, <<JArr(<<JStr(<<"5">>)>>), JArr(<<JStr(<<"x">>)>>)>>),
     JObj(<<"name", "size">>, <<JArr(<<>>), JArr(<<JNum(FALSE, <<"5">>)>>)>>),
     JObj(<<"size">>, <<JArr(<<JNum(FALSE, <<"5">>)>>)>>),
     JArr(<<JArr(<<JStr(<<"x">>)>>), JArr(<<JNum(FALSE, <<"5">>)>>)>>)}

TorrentInputs ==
    {ObjectOf(order, With(m, "descr", d)) :
        order \in MemberOrders,
        m \in {BaseTorrent,
               With(BaseTorrent, "id", JNull),
               With(BaseTorrent, "category", JStr(<<"6","5","5","3","6">>)),
               With(BaseTorrent, "language", JNum(FALSE, <<"1">>)),
               With(BaseTorrent, "language", JNull),
               With(BaseTorrent, "language", JStr(<<"1">>)),
               With(BaseTorrent, "textlanguage", JNum(TRUE, <<"1">>)),
               With(With(BaseTorrent, "textlanguage", JNum(TRUE, <<"1">>)), "id", JNull),
               Without(BaseTorrent, "imdb"),
               Without(With(BaseTorrent, "language", JStr(<<"1">>)), "id")}
            \cup {With(BaseTorrent, "status", s) : s \in StatusObjects},
        d \in {JStr(<<"d">>), JNull}}
        \cup {ObjectOf(order, m) :
                 order \in MemberOrders,
                 m \in {BaseTorrent, With(BaseTorrent, "seeders", JStr(<<"a">>))}}
        \cup RepeatedMembers
        \cup {JArr(<<JStr(<<"d">>), JNull, JNull>> \o ArrayOf(PartialTorrentFields, BaseTorrent)),
              JNull}

-----------------------------------------------------------------------------
(* The library's functions, called one at a time *)

Threads == {"t1", "t2"}
NoCalls == <<>>

Init ==
    /\ CATEGORIES \in CategoryTables
    /\ op = "none"
    /\ arg = [none |-> <<>>]
    /\ res = [none |-> <<>>]
    /\ client = [t \in Threads |-> None]
    /\ built = [t \in Threads |-> 0]
    /\ call = NoCalls

\* Each action: the caller, holding no result, calls the function on an input
\* and is handed what it returns.  arg and res hold the input and the result
\* under the name of the function called.

Call_u64_from_str ==
    /\ op = "none"
    /\ \E v \in JsonInputs :
          /\ op' = "u64_from_str"
          /\ arg' = [u64_from_str |-> v]
          /\ res' = [u64_from_str |-> u64_from_str(v)]
    /\ UNCHANGED <<CATEGORIES, client, built, call>>

Call_u16_from_str ==
    /\ op = "none"
    /\ \E v \in JsonInputs :
          /\ op' = "u16_from_str"
          /\ arg' = [u16_from_str |-> v]
          /\ res' = [u16_from_str |-> u16_from_str(v)]
    /\ UNCHANGED <<CATEGORIES, client, built, call>>

Call_parse_timestamp ==
    /\ op = "none"
    /\ \E v \in JsonInputs :
          /\ op' = "parse_timestamp"
          /\ arg' = [parse_timestamp |-> v]
          /\ res' = [parse_timestamp |-> parse_timestamp(v)]
    /\ UNCHANGED <<CATEGORIES, client, built, call>>

Call_empty_as_none ==
    /\ op = "none"
    /\ \E v \in JsonInputs :
          /\ op' = "empty_as_none"
          /\ arg' = [empty_as_none |-> v]
          /\ res' = [empty_as_none |-> empty_as_none(v)]
    /\ UNCHANGED <<CATEGORIES, client, built, call>>

Call_unit_array ==
    /\ op = "none"
    /\ \E T \in {"String", "u64"}, v \in JsonInputs :
          /\ op' = "unit_array"
          /\ arg' = [unit_array |-> [T |-> T, v |-> v]]
          /\ res' = [unit_array |-> unit_array(T, v)]
    /\ UNCHANGED <<CATEGORIES, client, built, call>>

Call_Category_new ==
    /\ op = "none"
    /\ \E id \in TestCodes :
          /\ op' = "Category_new"
          /\ arg' = [Category_new |-> id]
          /\ res' = [Category_new |-> Category_new(id)]
    /\ UNCHANGED <<CATEGORIES, client, built, call>>

Call_Category_all ==
    /\ op = "none"
    /\ op' = "Category_all"
    /\ arg' = [Category_all |-> <<>>]
    /\ res' = [Category_all |-> Category_all]
    /\ UNCHANGED <<CATEGORIES, client, built, call>>

\* a Category comes from Category::new or from a decoded response
Call_Category_name ==
    /\ op = "none"
    /\ \E id \in TestCodes :
          /\ op' = "Category_name"
          /\ arg' = [Category_name |-> [code |-> id]]
          /\ res' = [Category_name |-> Category_name([code |-> id])]
    /\ UNCHANGED <<CATEGORIES, client, built, call>>

Call_Category_code ==
    /\ op = "none"
    /\ \E id \in TestCodes :
          /\ op' = "Category_code"
          /\ arg' = [Category_code |-> [code |-> id]]
          /\ res' = [Category_code |-> Category_code([code |-> id])]
    /\ UNCHANGED <<CATEGORIES, client, built, call>>

Call_magnet ==
    /\ op = "none"
    /\ \E h \in InfoHashes, n \in Names :
          /\ op' = "magnet"
          /\ arg' = [magnet |-> [info_hash |-> h, name |-> n]]
          /\ res' = [magnet |-> magnet([info_hash |-> h, name |-> n])]
    /\ UNCHANGED <<CATEGORIES, client, built, call>>

Decode_PartialTorrent ==
    /\ op = "none"
    /\ \E v \in PartialTorrentInputs :
          /\ op' = "PartialTorrent"
          /\ arg' = [PartialTorrent |-> v]
          /\ res' = [PartialTorrent |-> PartialTorrent_deserialize(v)]
    /\ UNCHANGED <<CATEGORIES, client, built, call>>

Decode_TorrentFile ==
    /\ op = "none"
    /\ \E v \in TorrentFileInputs :
          /\ op' = "TorrentFile"
          /\ arg' = [TorrentFile |-> v]
          /\ res' = [TorrentFile |-> TorrentFile_deserialize(v)]
    /\ UNCHANGED <<CATEGORIES, client, built, call>>

Decode_Torrent ==
    /\ op = "none"
    /\ \E v \in TorrentInputs :
          /\ op' = "Torrent"
          /\ arg' = [Torrent |-> v]
          /\ res' = [Torrent |-> Torrent_deserialize(v)]
    /\ UNCHANGED <<CATEGORIES, client, built, call>>

Decode_Vec_PartialTorrent ==
    /\ op = "none"
    /\ \E items \in SeqsUpTo(ListingElements, MaxItems) :
          /\ op' = "Vec_PartialTorrent"
          /\ arg' = [Vec_PartialTorrent |-> JArr(items)]
          /\ res' = [Vec_PartialTorrent |-> Vec_deserialize("PartialTorrent", JArr(items))]
    /\ UNCHANGED <<CATEGORIES, client, built, call>>

Decode_Vec_TorrentFile ==
    /\ op = "none"
    /\ \E items \in SeqsUpTo(FileElements, MaxItems) :
          /\ op' = "Vec_TorrentFile"
          /\ arg' = [Vec_TorrentFile |-> JArr(items)]
          /\ res' = [Vec_TorrentFile |-> Vec_deserialize("TorrentFile", JArr(items))]
    /\ UNCHANGED <<CATEGORIES, client, built, call>>

\* the caller is done with the result
Return ==
    /\ op # "none"
    /\ op' = "none"
    /\ arg' = [none |-> <<>>]
    /\ res' = [none |-> <<>>]
    /\ UNCHANGED <<CATEGORIES, client, built, call>>

Next ==
    \/ Call_u64_from_str
    \/ Call_u16_from_str
    \/ Call_parse_timestamp
    \/ Call_empty_as_none
    \/ Call_unit_array
    \/ Call_Category_new
    \/ Call_Category_all
    \/ Call_Category_name
    \/ Call_Category_code
    \/ Call_magnet
    \/ Decode_PartialTorrent
    \/ Decode_TorrentFile
    \/ Decode_Torrent
    \/ Decode_Vec_PartialTorrent
    \/ Decode_Vec_TorrentFile
    \/ Return

Spec == Init /\ [][Next]_vars

-----------------------------------------------------------------------------
(* lib.rs: the four request functions and the thread-local client *)

MaxCalls == 2

\* the table the requests run with
InitRequests == Init /\ CATEGORIES = << <<201, "Video: Movies">> >>
\* a handle built for every request
NeedsInit_always(t) == TRUE

\* thread_local!: the value is built on the thread's first access
NeedsInit(t) == ~client[t].some

\* CLIENT.with(|client| ...): the handle the closure is given on thread t
CLIENT_with(t) ==
    IF NeedsInit(t) THEN [owner |-> t, serial |-> built[t] + 1] ELSE client[t].val

\* client.get(..).send(): one GET goes out, the future keeps the handle
Sent(fn, t, handle) ==
    [fn |-> fn, pc |-> "sent", started |-> t, thread |-> t, handle |-> handle,
     gets |-> 1, transport |-> "pending", body |-> JNull, result |-> None]

\* search(query, category), first polled on some thread t
search ==
    /\ Len(call) < MaxCalls
    /\ \E t \in Threads :
          /\ client' = [client EXCEPT ![t] = Some(CLIENT_with(t))]
          /\ built' = [built EXCEPT ![t] = IF NeedsInit(t) THEN @ + 1 ELSE @]
          /\ call' = Append(call, Sent("search", t, CLIENT_with(t)))
    /\ UNCHANGED <<CATEGORIES, op, arg, res>>

\* top100(category, last_48h), first polled on some thread t
top100 ==
    /\ Len(call) < MaxCalls
    /\ \E t \in Threads :
          /\ client' = [client EXCEPT ![t] = Some(CLIENT_with(t))]
          /\ built' = [built EXCEPT ![t] = IF NeedsInit(t) THEN @ + 1 ELSE @]
          /\ call' = Append(call, Sent("top100", t, CLIENT_with(t)))
    /\ UNCHANGED <<CATEGORIES, op, arg, res>>

\* torrent(id), first polled on some thread t
torrent ==
    /\ Len(call) < MaxCalls
    /\ \E t \in Threads :
          /\ client' = [client EXCEPT ![t] = Some(CLIENT_with(t))]
          /\ built' = [built EXCEPT ![t] = IF NeedsInit(t) THEN @ + 1 ELSE @]
          /\ call' = Append(call, Sent("torrent", t, CLIENT_with(t)))
    /\ UNCHANGED <<CATEGORIES, op, arg, res>>

\* torrent_files(id), first polled on some thread t
torrent_files ==
    /\ Len(call) < MaxCalls
    /\ \E t \in Threads :
          /\ client' = [client EXCEPT ![t] = Some(CLIENT_with(t))]
          /\ built' = [built EXCEPT ![t] = IF NeedsInit(t) THEN @ + 1 ELSE @]
          /\ call' = Append(call, Sent("torrent_files", t, CLIENT_with(t)))
    /\ UNCHANGED <<CATEGORIES, op, arg, res>>

InFlight(c) == c.pc \in {"sent", "received"}

\* the futures are Send: the executor may resume a suspended one on any thread
Resume ==
    /\ \E r \in 1..Len(call), u \in Threads :
          /\ InFlight(call[r])
          /\ call[r].thread # u
          /\ call' = [call EXCEPT ![r].thread = u]
    /\ UNCHANGED <<CATEGORIES, op, arg, res, client, built>>
\* a failed call that is sent again
RetryTransportError(c) ==
    [c EXCEPT !.gets = @ + 1, !.pc = "sent", !.transport = "pending"]

\* `?` on a transport error: the function returns it
ReturnTransportError(c) ==
    [c EXCEPT !.pc = "done", !.thread = "-", !.transport = "failed",
              !.result = Some(Err("transport"))]

\* send().await? fails
SendFails ==
    /\ \E r \in 1..Len(call) :
          /\ call[r].pc = "sent"
          /\ call' = [call EXCEPT ![r] = ReturnTransportError(call[r])]
    /\ UNCHANGED <<CATEGORIES, op, arg, res, client, built>>

\* send().await? yields the response
SendSucceeds ==
    /\ \E r \in 1..Len(call) :
          /\ call[r].pc = "sent"
          /\ call' = [call EXCEPT ![r].pc = "received"]
    /\ UNCHANGED <<CATEGORIES, op, arg, res, client, built>>

\* json().await? fails while the body is read
BodyFails ==
    /\ \E r \in 1..Len(call) :
          /\ call[r].pc = "received"
          /\ call' = [call EXCEPT ![r] = ReturnTransportError(call[r])]
    /\ UNCHANGED <<CATEGORIES, op, arg, res, client, built>>

\* Response::json into the function's return type
Response_json(fn, body) ==
    IF body.t = "invalid" THEN Err("not JSON")
    ELSE IF fn \in {"search", "top100"} THEN Vec_deserialize("PartialTorrent", body)
    ELSE IF fn = "torrent" THEN Torrent_deserialize(body)
    ELSE Vec_deserialize("TorrentFile", body)

ResponseBodies(fn) ==
    IF fn \in {"search", "top100"}
    THEN {JArr(<<ObjectOf(MemberOrder, BaseTorrent)>>),
          JArr(<<ObjectOf(MemberOrder, BaseTorrent),
                 ObjectOf(MemberOrder, With(BaseTorrent, "seeders", JStr(<<"a">>)))>>),
          JInvalid}
    ELSE IF fn = "torrent"
    THEN {ObjectOf(MemberOrder, With(BaseTorrent, "descr", JStr(<<"d">>))),
          ObjectOf(MemberOrder, BaseTorrent), JInvalid}
    ELSE {JArr(<<JObj(<<"name", "size">>,
                      <<JArr(<<JStr(<<"x">>)>>), JArr(<<JNum(FALSE, <<"5">>)>>)>>)>>),
          JArr(<<JObj(<<"name", "size">>, <<JArr(<<>>), JArr(<<JNum(FALSE, <<"5">>)>>)>>)>>),
          JInvalid}

\* what json() returns for each body a function can receive
Decoded ==
    [fn \in {"search", "top100", "torrent", "torrent_files"} |->
        [body \in ResponseBodies(fn) |-> Response_json(fn, body)]]

\* json().await? with the whole body read: Ok(decoded), or the decode error
BodyArrives ==
    /\ \E r \in 1..Len(call) :
          /\ call[r].pc = "received"
          /\ \E body \in ResponseBodies(call[r].fn) :
                call' = [call EXCEPT ![r].pc = "done", ![r].thread = "-",
                                     ![r].transport = "ok", ![r].body = body,
                                     ![r].result = Some(Decoded[call[r].fn][body])]
    /\ UNCHANGED <<CATEGORIES, op, arg, res, client, built>>

NextRequests ==
    \/ search
    \/ top100
    \/ torrent
    \/ torrent_files
    \/ Resume
    \/ SendFails
    \/ SendSucceeds
    \/ BodyFails
    \/ BodyArrives

SpecRequests == InitRequests /\ [][NextRequests]_vars

-----------------------------------------------------------------------------
(* Properties *)

\* the input and the result of the call in hand
Arg == arg[op]
Res == res[op]

\* the name the table gives code c: that of its first entry for c
HasEntry(c) == \E i \in 1..Len(CATEGORIES) : CATEGORIES[i][1] = c
TableName(c) ==
    CATEGORIES[CHOOSE i \in 1..Len(CATEGORIES) :
                  /\ CATEGORIES[i][1] = c
                  /\ \A j \in 1..(i - 1) : CATEGORIES[j][1] # c][2]
\* the code with the same hundreds digit and zero tens and units
HundredsParent(c) == c - (c % 100)

\* C1: Category::name() returns the table name of the code when the table has
\* an entry for it, otherwise the table name of its hundreds-place parent code
\* (200 for 207) when the table has that, otherwise "Unknown".
C1_NameFallsBackToHundredsParent ==
    op = "Category_name" =>
        Res = IF HasEntry(Arg.code) THEN TableName(Arg.code)
              ELSE IF HasEntry(HundredsParent(Arg.code)) THEN TableName(HundredsParent(Arg.code))
              ELSE "Unknown"

\* C2: Category::new(c) returns a handle whose code() is c exactly when c is a
\* code of the static table, and None otherwise; Category::all() yields the
\* table's codes in table order.
C2_NewExactlyForTableCodes ==
    /\ op = "Category_new" =>
          /\ Res.some <=> HasEntry(Arg)
          /\ Res.some => Category_code(Res.val) = Arg
    /\ op = "Category_all" =>
          /\ Len(Res) = Len(CATEGORIES)
          /\ \A i \in 1..Len(CATEGORIES) : Category_code(Res[i]) = CATEGORIES[i][1]

C2_Witness ==
    /\ op = "Category_new"
    /\ Arg = 201
    /\ Res = Some([code |-> 201])

\* an integer literal of the JSON text
IsIntLiteral(v) == v.t = "num" /\ ~v.frac
\* text that is a sign followed by a canonical numeral other than zero
IsNegativeNumeral(s) ==
    Len(s) >= 2 /\ s[1] = "-" /\ IsCanonical(Tail(s)) /\ Tail(s) # Zero
\* text that reads as a decimal integer: an optional sign, then digits
IsNumericText(s) ==
    \/ s # <<>> /\ \A i \in 1..Len(s) : IsDigit(s[i])
    \/ Len(s) >= 2 /\ s[1] \in {"+", "-"} /\ \A i \in 2..Len(s) : IsDigit(s[i])
InU64(n) == NatLeq(n, U64Max)

\* C3: u64_from_str returns n exactly for the JSON number n and for the JSON
\* string of the decimal digits of n, for every 0 <= n < 2^64; it fails for a
\* number or numeric string outside that range, for a non-numeric string and
\* for any value that is neither a number nor a string.
C3_U64ExactOrError ==
    op = "u64_from_str" =>
        /\ (IsIntLiteral(Arg) /\ ~Arg.neg /\ InU64(Arg.s)) => Res = Ok(Arg.s)
        /\ (Arg.t = "str" /\ IsCanonical(Arg.s) /\ InU64(Arg.s)) => Res = Ok(Arg.s)
        /\ (IsIntLiteral(Arg) /\ Arg.neg /\ Arg.s # Zero) => ~Res.ok
        /\ (IsIntLiteral(Arg) /\ ~InU64(Arg.s)) => ~Res.ok
        /\ (Arg.t = "str" /\ IsCanonical(Arg.s) /\ ~InU64(Arg.s)) => ~Res.ok
        /\ (Arg.t = "str" /\ IsNegativeNumeral(Arg.s)) => ~Res.ok
        /\ (Arg.t = "str" /\ ~IsNumericText(Arg.s)) => ~Res.ok
        /\ Arg.t \notin {"num", "str"} => ~Res.ok

C3_Witness ==
    /\ op = "u64_from_str"
    /\ Arg = JStr(U64Max)
    /\ Res = Ok(U64Max)

InU16(n) == NatLeq(n, U16MaxText)

\* C4: u16_from_str succeeds with n for the JSON number or numeric string of
\* every 0 <= n <= 65535, and fails for every n >= 65536, a valid u64
\* included: the value is never truncated or wrapped modulo 2^16.
C4_U16RangeChecked ==
    op = "u16_from_str" =>
        /\ ((IsIntLiteral(Arg) /\ ~Arg.neg) \/ (Arg.t = "str" /\ IsCanonical(Arg.s))) =>
              IF InU16(Arg.s) THEN Res = Ok(ToInt(Arg.s)) ELSE ~Res.ok
        /\ Res.ok => Res.val \in 0..U16Max

C4_Witness ==
    /\ op = "u16_from_str"
    /\ Arg = JNum(FALSE, <<"6","5","5","3","6">>)
    /\ ~Res.ok

\* the instant n seconds from the epoch, without sub-second part, in UTC
Instant(n) == [secs |-> n, nanos |-> 0, zone |-> "Utc"]
InCalendar(n) == SLeq(MinTimestamp, n) /\ SLeq(n, MaxTimestamp)
\* the signed quantity a string of digits with an optional minus sign denotes
IsSignedNumeral(s) == IsCanonical(s) \/ IsNegativeNumeral(s)
SignedOfText(s) == IF s[1] = "-" THEN Signed(TRUE, Tail(s)) ELSE Signed(FALSE, s)

\* C5: for every number of seconds n that is a valid calendar instant,
\* parse_timestamp of the JSON number n and of the JSON string of n give the
\* same UTC instant, n whole seconds after the epoch and no sub-second part;
\* a non-numeric string, a non-integer value and an integer outside the
\* calendar range fail.
C5_TimestampSameForNumberAndString ==
    op = "parse_timestamp" =>
        /\ (IsIntLiteral(Arg) /\ ~(Arg.neg /\ Arg.s = Zero)) =>
              IF InCalendar(Signed(Arg.neg, Arg.s))
              THEN Res = Ok(Instant(Signed(Arg.neg, Arg.s)))
              ELSE ~Res.ok
        /\ (Arg.t = "str" /\ IsSignedNumeral(Arg.s)) =>
              IF InCalendar(SignedOfText(Arg.s))
              THEN Res = Ok(Instant(SignedOfText(Arg.s)))
              ELSE ~Res.ok
        /\ (Arg.t = "str" /\ ~IsNumericText(Arg.s)) => ~Res.ok
        /\ (Arg.t = "num" /\ Arg.frac) => ~Res.ok
        /\ Arg.t \notin {"num", "str"} => ~Res.ok
        /\ Res.ok => Res.val.nanos = 0 /\ Res.val.zone = "Utc"

C5_Witness ==
    /\ op = "parse_timestamp"
    /\ Arg = JStr(<<"1","7","0","0","0","0","0","0","0","0">>)
    /\ Res = Ok(Instant(Signed(FALSE, <<"1","7","0","0","0","0","0","0","0","0">>)))

\* what the sole element decodes to as the target type, when it does
ElementDecodes(T, e) ==
    IF T = "String" THEN e.t = "str"
    ELSE IsIntLiteral(e) /\ ~e.neg /\ InU64(e.s)

\* C6: unit_array succeeds only for an array of length exactly one whose sole
\* element decodes as the target type, and then returns that decoding; an
\* array of any other length, a non-array and an element of the wrong type
\* fail.
C6_UnitArrayExactlyOne ==
    op = "unit_array" =>
        /\ Res.ok <=> /\ Arg.v.t = "arr"
                      /\ Len(Arg.v.items) = 1
                      /\ ElementDecodes(Arg.T, Arg.v.items[1])
        /\ Res.ok => Res.val = Arg.v.items[1].s

C6_Witness ==
    /\ op = "unit_array"
    /\ Arg = [T |-> "String", v |-> JArr(<<JStr(<<"x">>)>>)]
    /\ Res = Ok(<<"x">>)

\* the tr parameters of the configured trackers, in list order ("&tr=" each)
TrackerParameters ==
    Flatten([i \in 1..Len(TRACKERS) |-> <<38, 116, 114, 61>> \o byte_serialize(TRACKERS[i])])

\* C7: the link is magnet:?xt=urn:btih: followed by the info hash verbatim,
\* then the encoded dn=<name> ("&dn="), then one tr= parameter per configured
\* tracker in list order; the info hash and name add, remove or reorder nothing.
C7_MagnetHashVerbatim ==
    op = "magnet" =>
        Res = MagnetPrefix \o Arg.info_hash
                \o <<38, 100, 110, 61>> \o byte_serialize(Arg.name)
                \o TrackerParameters


\* some member of object o names a field of S and fails that field's coercion
FieldFails(S, o) ==
    \E i \in 1..Len(o.keys) :
        o.keys[i] \in FieldSet(S) /\ ~deserialize_field(TypeOf(S, o.keys[i]), o.items[i]).ok

\* some element of array a stands for a field of S and fails its coercion
ElementFails(S, a) ==
    \E n \in 1..Len(FieldsOf(S)) :
        n <= Len(a.items) /\ ~deserialize_field(TypeOf(S, FieldsOf(S)[n]), a.items[n]).ok

\* value v, read as a record S, has a field that fails its coercion
RecordFieldFails(S, v) ==
    \/ v.t = "obj" /\ FieldFails(S, v)
    \/ v.t = "arr" /\ ElementFails(S, v)

\* C8: decoding is all-or-nothing: when any field of a PartialTorrent, Torrent
\* or TorrentFile fails its coercion the decode returns an error and no
\* record; one invalid element of a list response fails the whole list.
C8_DecodeAllOrNothing ==
    /\ op = "PartialTorrent" =>
          /\ RecordFieldFails("PartialTorrent", Arg) => ~Res.ok
          /\ Res.ok => DOMAIN Res.val = FieldSet("PartialTorrent")
    /\ op = "Torrent" =>
          /\ (Arg.t = "obj" /\ (FieldFails("Torrent", Arg)
                                   \/ FieldFails("PartialTorrent (flattened)", Arg))) => ~Res.ok
          /\ Res.ok => /\ DOMAIN Res.val = {"descr", "language", "textlanguage", "partial"}
                       /\ DOMAIN Res.val.partial = FieldSet("PartialTorrent")
    /\ op = "TorrentFile" =>
          /\ RecordFieldFails("TorrentFile", Arg) => ~Res.ok
          /\ Res.ok => DOMAIN Res.val = {"name", "size"}
    /\ op = "Vec_PartialTorrent" =>
          /\ (\E i \in 1..Len(Arg.items) :
                 \/ Arg.items[i].t \notin {"obj", "arr"}
                 \/ RecordFieldFails("PartialTorrent", Arg.items[i])) => ~Res.ok
          /\ Res.ok => Len(Res.val) = Len(Arg.items)
    /\ op = "Vec_TorrentFile" =>
          /\ (\E i \in 1..Len(Arg.items) :
                 \/ Arg.items[i].t \notin {"obj", "arr"}
                 \/ RecordFieldFails("TorrentFile", Arg.items[i])) => ~Res.ok
          /\ Res.ok => Len(Res.val) = Len(Arg.items)

C8_Witness ==
    /\ op = "Vec_PartialTorrent"
    /\ Len(Arg.items) = 2
    /\ PartialTorrent_deserialize(Arg.items[1]).ok
    /\ Arg.items[2].t = "obj"
    /\ HasKey(Arg.items[2], "seeders")
    /\ ~u64_from_str(Arg.items[2].items[MemberOf(Arg.items[2], "seeders")]).ok
    /\ ~Res.ok

\* C9: each call issues exactly one GET and then completes: a transport
\* failure or a body that does not decode is returned as an error without a
\* further request, and a typed result is returned only when the single GET
\* succeeded and its body decoded completely.
C9_OneGetNoRetry ==
    \A r \in 1..Len(call) :
        /\ call[r].gets = 1
        /\ call[r].pc = "done" <=> call[r].result.some
        /\ call[r].pc = "done" =>
              /\ call[r].result.val.ok <=>
                    /\ call[r].transport = "ok"
                    /\ Decoded[call[r].fn][call[r].body].ok
              /\ call[r].result.val.ok =>
                    call[r].result.val = Decoded[call[r].fn][call[r].body]

C9_Witness ==
    \E r, q \in 1..Len(call) :
        /\ call[r].pc = "done" /\ call[r].transport = "failed" /\ ~call[r].result.val.ok
        /\ call[q].pc = "done" /\ call[q].transport = "ok" /\ call[q].body.t = "arr"
        /\ ~call[q].result.val.ok

\* at most one handle per thread, built lazily by its first request, and
\* every request started on a thread holds that thread's handle
OneLazyHandlePerThread ==
    /\ \A t \in Threads :
          /\ built[t] <= 1
          /\ client[t].some <=> built[t] = 1
          /\ built[t] = 1 <=> \E r \in 1..Len(call) : call[r].started = t
    /\ \A r \in 1..Len(call) :
          /\ client[call[r].started].some
          /\ call[r].handle = client[call[r].started].val
          /\ call[r].handle.owner = call[r].started

\* C10 as stated: one lazily built handle per thread, reused by the thread's
\* later requests, and a request in flight never uses a handle owned by a
\* thread other than the one executing it.
C10_HandleNeverLeavesItsThread ==
    /\ OneLazyHandlePerThread
    /\ \A r \in 1..Len(call) :
          InFlight(call[r]) => call[r].handle.owner = call[r].thread

\* C10 amended: one lazily built handle per thread, reused by every request
\* started on the thread; a request in flight uses the handle of the thread
\* that started it, whichever thread resumes it.
C10_HandleOfStartingThread ==
    /\ OneLazyHandlePerThread
    /\ \A r \in 1..Len(call) :
          InFlight(call[r]) =>
              /\ call[r].thread \in Threads
              /\ call[r].handle = client[call[r].started].val

C10_Witness ==
    \E r, q \in 1..Len(call) :
        /\ r # q
        /\ call[r].started = call[q].started
        /\ InFlight(call[r])
        /\ call[r].thread # call[r].started
        /\ call[r].handle = call[q].handle
        /\ built[call[r].started] = 1

====
